---- MODULE Spec2Model ----
(***************************************************************************)
(* Model of the Vec3 / Vec4 vector core (src/src/haptic/core/vec3.rs).     *)
(*                                                                         *)
(* Every component is an IEEE-754 binary floating-point value, as f32 is:  *)
(* signed zeros, subnormals, infinities, NaN, round-to-nearest-even, the   *)
(* f32 exponent range.  The significand is narrowed from 24 bits to        *)
(* Precision bits so that the arithmetic stays inside TLC's integers; all  *)
(* literals of the source (1e-6, 0.5, 1.5, 0x5f3759df, ...) are rounded or *)
(* truncated to that width the way a compiler rounds them to f32.  The one *)
(* exception is the threshold 1.0 - EPSILON of slerp, compared at the      *)
(* width of f32.  acos and sin return any float next to the mathematical   *)
(* value, their precision being unspecified.                               *)
(***************************************************************************)
EXTENDS Integers, Sequences, FiniteSets, TLC

\* ------------------------------------------------------------------ bounds
\* Significand width of the modelled float (f32: 24).
Precision == 4
\* Largest index handed to indexed access (valid indices are 0, 1, 2).
MaxIndex == 4
\* Number of threads that call into the library at the same time.
MaxThreads == 2
\* Number of in-place assignments a caller chains on one vector.
MaxAssigns == 2

\* ------------------------------------------------- the f32 number format
\* Largest and smallest exponent of a normal f32, and its exponent field width.
EMax == 127
EMin == -126
ExpBits == 8

\* Exponent of the unit in the last place of the smallest / largest binade.
QMin == EMin - (Precision - 1)
QMax == EMax - (Precision - 1)

RECURSIVE BitLen(_)
BitLen(n) == IF n = 0 THEN 0 ELSE 1 + BitLen(n \div 2)

NaN == [k |-> "nan", s |-> 0, m |-> 0, e |-> 0]
Inf(s) == [k |-> "inf", s |-> s, m |-> 0, e |-> 0]
FZero(s) == [k |-> "fin", s |-> s, m |-> 0, e |-> QMin]

IsNaN(a) == a.k = "nan"
IsInf(a) == a.k = "inf"
IsFin(a) == a.k = "fin"
IsZeroF(a) == a.k = "fin" /\ a.m = 0

\* A finite value with significand q (at most Precision bits, or exactly
\* 2^Precision after a rounding carry) and quantum exponent e >= QMin.
Pack(s, q, e) ==
  IF q = 0 THEN FZero(s)
  ELSE LET c == (q = 2 ^ Precision)
           q2 == IF c THEN 2 ^ (Precision - 1) ELSE q
           e2 == IF c THEN e + 1 ELSE e
       IN IF e2 > QMax THEN Inf(s) ELSE [k |-> "fin", s |-> s, m |-> q2, e |-> e2]

\* Round-to-nearest-even of the exact magnitude (m + f) * 2^e to the format,
\* where 0 < f < 1 when sticky and f = 0 otherwise.
RoundFin(s, m, e, sticky) ==
  LET L == BitLen(m)
      q0 == IF e + L - Precision > QMin THEN e + L - Precision ELSE QMin
      sh == q0 - e
  IN IF sh <= 0 THEN Pack(s, m * 2 ^ (0 - sh), q0)
     ELSE IF sh > L THEN FZero(s)
     ELSE LET d == 2 ^ sh
              q == m \div d
              r == m % d
              h == d \div 2
              up == (r > h) \/ (r = h /\ (sticky \/ q % 2 = 1))
          IN Pack(s, IF up THEN q + 1 ELSE q, q0)

\* The float nearest to (-1)^s * m * 2^e: how a literal becomes an f32.
Lit(s, m, e) == RoundFin(s, m, e, FALSE)

Xor(s, t) == IF s = t THEN 0 ELSE 1

\* Magnitude order of two non-NaN values.
MagLess(a, b) ==
  IF IsInf(a) THEN FALSE
  ELSE IF IsInf(b) THEN TRUE
  ELSE a.e < b.e \/ (a.e = b.e /\ a.m < b.m)

\* f32 `<`, `>`, `==`: false whenever an operand is NaN; -0.0 == 0.0.
flt(a, b) ==
  /\ ~IsNaN(a)
  /\ ~IsNaN(b)
  /\ ~(IsZeroF(a) /\ IsZeroF(b))
  /\ IF a.s # b.s THEN a.s = 1
     ELSE IF a.s = 0 THEN MagLess(a, b) ELSE MagLess(b, a)
fgt(a, b) == flt(b, a)
feq(a, b) == ~IsNaN(a) /\ ~IsNaN(b) /\ (a = b \/ (IsZeroF(a) /\ IsZeroF(b)))

\* f32 `>=` and `<=`.
fge(a, b) == fgt(a, b) \/ feq(a, b)
fle(a, b) == flt(a, b) \/ feq(a, b)

\* f32 unary minus and abs (sign bit only).
fneg(a) == IF IsNaN(a) THEN NaN ELSE [a EXCEPT !.s = 1 - a.s]
fabs(a) == IF IsNaN(a) THEN NaN ELSE [a EXCEPT !.s = 0]

\* f32 `*`.
fmul(a, b) ==
  IF IsNaN(a) \/ IsNaN(b) THEN NaN
  ELSE IF IsInf(a) \/ IsInf(b)
       THEN IF IsZeroF(a) \/ IsZeroF(b) THEN NaN ELSE Inf(Xor(a.s, b.s))
  ELSE RoundFin(Xor(a.s, b.s), a.m * b.m, a.e + b.e, FALSE)

\* Sum of two finite non-zero values, hi the one with the larger exponent.
AddFin(hi, lo) ==
  LET d == hi.e - lo.e
  IN IF d > Precision + 2 THEN hi
     ELSE LET mh == hi.m * 2 ^ d
              sum == IF hi.s = lo.s THEN mh + lo.m ELSE mh - lo.m
          IN IF sum = 0 THEN FZero(0)
             ELSE IF sum > 0 THEN RoundFin(hi.s, sum, lo.e, FALSE)
             ELSE RoundFin(lo.s, 0 - sum, lo.e, FALSE)

\* f32 `+` and `-`.
fadd(a, b) ==
  IF IsNaN(a) \/ IsNaN(b) THEN NaN
  ELSE IF IsInf(a) THEN (IF IsInf(b) /\ a.s # b.s THEN NaN ELSE a)
  ELSE IF IsInf(b) THEN b
  ELSE IF IsZeroF(a) /\ IsZeroF(b) THEN FZero(IF a.s = 1 /\ b.s = 1 THEN 1 ELSE 0)
  ELSE IF IsZeroF(a) THEN b
  ELSE IF IsZeroF(b) THEN a
  ELSE IF a.e >= b.e THEN AddFin(a, b) ELSE AddFin(b, a)
fsub(a, b) == fadd(a, fneg(b))

\* f32 `/`.
fdiv(a, b) ==
  IF IsNaN(a) \/ IsNaN(b) THEN NaN
  ELSE IF IsInf(a) THEN (IF IsInf(b) THEN NaN ELSE Inf(Xor(a.s, b.s)))
  ELSE IF IsInf(b) THEN FZero(Xor(a.s, b.s))
  ELSE IF IsZeroF(b) THEN (IF IsZeroF(a) THEN NaN ELSE Inf(Xor(a.s, b.s)))
  ELSE IF IsZeroF(a) THEN FZero(Xor(a.s, b.s))
  ELSE LET sc == 2 * Precision + 2 - BitLen(a.m)
           n == a.m * 2 ^ sc
       IN RoundFin(Xor(a.s, b.s), n \div b.m, a.e - sc - b.e, n % b.m # 0)

\* Largest r with r * r <= n.
RECURSIVE ISqrt(_)
ISqrt(n) ==
  IF n < 2 THEN n
  ELSE LET r == 2 * ISqrt(n \div 4)
       IN IF (r + 1) * (r + 1) <= n THEN r + 1 ELSE r

\* f32::sqrt.
fsqrt(a) ==
  IF IsNaN(a) THEN NaN
  ELSE IF IsZeroF(a) THEN a
  ELSE IF a.s = 1 THEN NaN
  ELSE IF IsInf(a) THEN a
  ELSE LET sc0 == 2 * Precision + 2 - BitLen(a.m)
           sc == IF (a.e - sc0) % 2 = 0 THEN sc0 ELSE sc0 + 1
           n == a.m * 2 ^ sc
           r == ISqrt(n)
       IN RoundFin(0, r, (a.e - sc) \div 2, r * r # n)

\* ------------------------------------------------ bit patterns (to_bits)
\* Significand width of f32 itself; width of the modelled bit pattern.
F32Precision == 24
Width == 1 + ExpBits + (Precision - 1)
ExpAllOnes == 2 ^ ExpBits - 1

\* f32::to_bits: sign | biased exponent | fraction.  NaN is f32::NAN.
to_bits(a) ==
  LET hid == 2 ^ (Precision - 1)
      sgn == a.s * 2 ^ (Width - 1)
  IN IF IsNaN(a) THEN ExpAllOnes * hid + hid \div 2
     ELSE IF IsInf(a) THEN sgn + ExpAllOnes * hid
     ELSE IF a.m < hid THEN sgn + a.m
     ELSE sgn + (a.e + (Precision - 1) + EMax) * hid + (a.m - hid)

\* f32::from_bits.
from_bits(i) ==
  LET hid == 2 ^ (Precision - 1)
      sgn == i \div 2 ^ (Width - 1)
      ef == (i \div hid) % 2 ^ ExpBits
      fr == i % hid
  IN IF ef = ExpAllOnes THEN (IF fr = 0 THEN Inf(sgn) ELSE NaN)
     ELSE IF ef = 0 THEN [k |-> "fin", s |-> sgn, m |-> fr, e |-> QMin]
     ELSE [k |-> "fin", s |-> sgn, m |-> fr + hid, e |-> ef - EMax - (Precision - 1)]

\* ------------------------------------------------------ program constants
\* pub const EPSILON: f32 = 1e-6  (the f32 nearest to 1e-6 is 8796093 * 2^-43).
EPSILON == Lit(0, 8796093, -43)
\* The literals 0.0, 1.0, 0.5, 1.5 of the source.
F0 == FZero(0)
F1 == Lit(0, 1, 0)
F0_5 == Lit(0, 1, -1)
F1_5 == Lit(0, 3, -1)
\* 0x5f3759df, and its leading Width bits (the constant at the modelled width).
MagicBits == 1597463007
Magic == MagicBits \div 2 ^ (F32Precision - Precision)

\* ------------------------------------------------------------- the state
VARIABLES
  feature,  \* build configuration: TRUE when feature "fast_inv_sqrt" is enabled
  self,     \* the Vec3 the caller holds (receiver of every method)
  other,    \* a second Vec3 operand (other / normal)
  scalar,   \* an f32 operand (eta, a scalar factor)
  v4,       \* the Vec4 the caller holds
  op,       \* the operation called last
  args,     \* the arguments the caller chose for it
  prev,     \* self as it was when the operation was called
  out,      \* what the call produced: a returned value or a panic
  frames    \* the call each thread is executing: its own copies of the arguments

vars == <<feature, self, other, scalar, v4, op, args, prev, out, frames>>

\* A call returns a value or unwinds with a panic message.
Ret(v) == [tag |-> "ret", val |-> v]
Panic(message, i) == [tag |-> "panic", msg |-> message, index |-> i]
NoCall == [tag |-> "none"]
\* Option<T>.
Some(v) == [some |-> TRUE, val |-> v]
None == [some |-> FALSE]
\* No thread is inside a call.
NoFrames == <<>>

\* ------------------------------------------------------------------ Vec3
new(x, y, z) == [x |-> x, y |-> y, z |-> z]
zero == new(F0, F0, F0)
unit_x == new(F1, F0, F0)
unit_y == new(F0, F1, F0)
unit_z == new(F0, F0, F1)

\* impl Add / Sub / Mul<f32> / Neg for Vec3.
add(a, b) == new(fadd(a.x, b.x), fadd(a.y, b.y), fadd(a.z, b.z))
sub(a, b) == new(fsub(a.x, b.x), fsub(a.y, b.y), fsub(a.z, b.z))
mul(a, k) == new(fmul(a.x, k), fmul(a.y, k), fmul(a.z, k))
neg(a) == new(fneg(a.x), fneg(a.y), fneg(a.z))

\* #[derive(PartialEq)]: field-wise f32 `==`.
veq(a, b) == feq(a.x, b.x) /\ feq(a.y, b.y) /\ feq(a.z, b.z)

\* A dot product whose last term pairs z with the wrong component.
dot_mispaired(a, b) == fadd(fadd(fmul(a.x, b.x), fmul(a.y, b.y)), fmul(a.z, b.y))

\* Vec3::dot: (x*x' + y*y') + z*z', each step rounded.
dot(a, b) == fadd(fadd(fmul(a.x, b.x), fmul(a.y, b.y)), fmul(a.z, b.z))

\* The same determinant with the operands of every difference swapped.
cross_left_handed(a, b) ==
  new(fsub(fmul(a.z, b.y), fmul(a.y, b.z)),
      fsub(fmul(a.x, b.z), fmul(a.z, b.x)),
      fsub(fmul(a.y, b.x), fmul(a.x, b.y)))

\* A cross product whose z component drops the x factor of its second term.
cross_mistyped(a, b) ==
  new(fsub(fmul(a.y, b.z), fmul(a.z, b.y)),
      fsub(fmul(a.z, b.x), fmul(a.x, b.z)),
      fsub(fmul(a.x, b.y), fmul(a.y, b.y)))

\* Vec3::cross.
cross(a, b) ==
  new(fsub(fmul(a.y, b.z), fmul(a.z, b.y)),
      fsub(fmul(a.z, b.x), fmul(a.x, b.z)),
      fsub(fmul(a.x, b.y), fmul(a.y, b.x)))

\* Vec3::length_squared, Vec3::length.
length_squared(a) == dot(a, a)
length(a) == fsqrt(length_squared(a))

\* u32 `-` of the release build: modulo 2^32 (here 2^Width).  The operand of
\* fast_inv_sqrt never has its sign bit set, so the difference never wraps.
WrappingSub(a, b) == (a - b + 2 ^ Width) % 2 ^ Width

\* fast_inv_sqrt: the bit-level estimate refined by one Newton-Raphson step
\* when the feature is enabled, 1.0 / x.sqrt() when it is not.
fast_inv_sqrt(x) ==
  IF feature
  THEN LET i == WrappingSub(Magic, to_bits(x) \div 2)
           y == from_bits(i)
       IN fmul(y, fsub(F1_5, fmul(fmul(fmul(F0_5, x), y), y)))
  ELSE fdiv(F1, fsqrt(x))

\* A normalize without the near-zero policy.
normalize_unguarded(a) == mul(a, fast_inv_sqrt(length_squared(a)))

\* Vec3::normalize.
normalize(a) ==
  LET length_sq == length_squared(a)
  IN IF flt(length_sq, fmul(EPSILON, EPSILON)) THEN zero
     ELSE mul(a, fast_inv_sqrt(length_sq))

\* Vec3::is_normalized.
is_normalized(a) == flt(fabs(fsub(length_squared(a), F1)), EPSILON)

\* Vec3::normalize_fast.
normalize_fast(a) ==
  LET length_sq == length_squared(a)
  IN IF flt(length_sq, fmul(EPSILON, EPSILON)) THEN zero
     ELSE mul(a, fast_inv_sqrt(length_sq))

\* A try_normalize that compares against EPSILON instead of EPSILON * EPSILON.
try_normalize_unsquared(a) ==
  LET length_sq == length_squared(a)
  IN IF flt(length_sq, EPSILON) THEN None
     ELSE Some(mul(a, fdiv(F1, fsqrt(length_sq))))

\* Vec3::try_normalize.
try_normalize(a) ==
  LET length_sq == length_squared(a)
  IN IF flt(length_sq, fmul(EPSILON, EPSILON)) THEN None
     ELSE Some(mul(a, fdiv(F1, fsqrt(length_sq))))

\* A refract that treats sin2T == 1 as total internal reflection too.
refract_inclusive(a, normal, eta) ==
  LET cos_i == fneg(dot(a, normal))
      sin_t2 == fmul(fmul(eta, eta), fsub(F1, fmul(cos_i, cos_i)))
  IN IF ~flt(sin_t2, F1) THEN None
     ELSE LET cos_t == fsqrt(fsub(F1, sin_t2))
          IN Some(add(mul(a, eta), mul(normal, fsub(fmul(eta, cos_i), cos_t))))

\* Vec3::refract.
refract(a, normal, eta) ==
  LET cos_i == fneg(dot(a, normal))
      sin_t2 == fmul(fmul(eta, eta), fsub(F1, fmul(cos_i, cos_i)))
  IN IF fgt(sin_t2, F1) THEN None
     ELSE LET cos_t == fsqrt(fsub(F1, sin_t2))
          IN Some(add(mul(a, eta), mul(normal, fsub(fmul(eta, cos_i), cos_t))))

\* Vec4::new.
new4(x, y, z, w) == [x |-> x, y |-> y, z |-> z, w |-> w]

\* A perspective division that tests w, not |w|, against EPSILON.
truncate_with_perspective_signed(v) ==
  IF flt(v.w, EPSILON) THEN zero
  ELSE new(fdiv(v.x, v.w), fdiv(v.y, v.w), fdiv(v.z, v.w))

\* Vec4::truncate_with_perspective.
truncate_with_perspective(v) ==
  IF flt(fabs(v.w), EPSILON) THEN zero
  ELSE new(fdiv(v.x, v.w), fdiv(v.y, v.w), fdiv(v.z, v.w))

\* An index that wraps around instead of failing.
index_wrapping(v, i) ==
  CASE i % 3 = 0 -> Ret(v.x)
    [] i % 3 = 1 -> Ret(v.y)
    [] OTHER -> Ret(v.z)

\* impl Index<usize> for Vec3.
index(v, i) ==
  CASE i = 0 -> Ret(v.x)
    [] i = 1 -> Ret(v.y)
    [] i = 2 -> Ret(v.z)
    [] OTHER -> Panic("Index out of bounds for Vec3", i)

\* impl IndexMut<usize> for Vec3: the field the returned reference points to.
index_mut(v, i) ==
  CASE i = 0 -> Ret("x")
    [] i = 1 -> Ret("y")
    [] i = 2 -> Ret("z")
    [] OTHER -> Panic("Index out of bounds for Vec3", i)

\* A swizzle that reads its indices in the wrong order.
swizzle_reversed(v, x_idx, y_idx, z_idx) ==
  LET a == index(v, z_idx)
      b == index(v, y_idx)
      c == index(v, x_idx)
  IN IF a.tag = "panic" THEN a
     ELSE IF b.tag = "panic" THEN b
     ELSE IF c.tag = "panic" THEN c
     ELSE Ret(new(a.val, b.val, c.val))

\* Vec3::swizzle: the three reads happen in argument order; the first panic unwinds.
swizzle(v, x_idx, y_idx, z_idx) ==
  LET a == index(v, x_idx)
      b == index(v, y_idx)
      c == index(v, z_idx)
  IN IF a.tag = "panic" THEN a
     ELSE IF b.tag = "panic" THEN b
     ELSE IF c.tag = "panic" THEN c
     ELSE Ret(new(a.val, b.val, c.val))

\* f32::min / f32::max: a NaN operand is ignored; when the operands compare
\* equal (+0.0 and -0.0) either may be returned, so the result is the set of
\* values a call can return.
fmin(a, b) ==
  IF IsNaN(a) THEN {b}
  ELSE IF IsNaN(b) THEN {a}
  ELSE IF feq(a, b) THEN {a, b}
  ELSE IF flt(a, b) THEN {a} ELSE {b}
fmax(a, b) ==
  IF IsNaN(a) THEN {b}
  ELSE IF IsNaN(b) THEN {a}
  ELSE IF feq(a, b) THEN {a, b}
  ELSE IF fgt(a, b) THEN {a} ELSE {b}

\* Vec3::min, Vec3::max, Vec3::abs: the vectors a call can return.
min(a, b) == {new(x, y, z) : x \in fmin(a.x, b.x), y \in fmin(a.y, b.y), z \in fmin(a.z, b.z)}
max(a, b) == {new(x, y, z) : x \in fmax(a.x, b.x), y \in fmax(a.y, b.y), z \in fmax(a.z, b.z)}
abs(a) == new(fabs(a.x), fabs(a.y), fabs(a.z))

\* A lerp that clamps t to [0, 1] first.
lerp_clamped(a, b, t) ==
  LET tc == IF flt(t, F0) THEN F0 ELSE IF fgt(t, F1) THEN F1 ELSE t
  IN add(a, mul(sub(b, a), tc))

\* Vec3::lerp.
lerp(a, b, t) == add(a, mul(sub(b, a), t))

\* ------------------------------------------------ f32::clamp, acos, sin
\* f32::clamp(min, max) with min <= max: a NaN receiver is returned as it is.
fclamp(x, lo, hi) == IF flt(x, lo) THEN lo ELSE IF fgt(x, hi) THEN hi ELSE x

\* The magnitude m * 2^e rounded to the format toward zero, or away from it.
RoundToward(s, m, e, away) ==
  LET L == BitLen(m)
      q0 == IF e + L - Precision > QMin THEN e + L - Precision ELSE QMin
      sh == q0 - e
  IN IF sh <= 0 THEN Pack(s, m * 2 ^ (0 - sh), q0)
     ELSE IF sh > L THEN (IF away /\ m > 0 THEN Pack(s, 1, q0) ELSE FZero(s))
     ELSE LET d == 2 ^ sh
              q == m \div d
          IN Pack(s, IF away /\ m % d > 0 THEN q + 1 ELSE q, q0)

\* f32::acos and f32::sin are computed by the platform's libm and their
\* precision is unspecified: a call returns one of the floats next to the
\* mathematical value.  The mathematical value is bracketed in fixed point,
\* FixBits fractional bits, within FixSlack units.
FixBits == 14
FixOne == 2 ^ FixBits
FixSlack == 6
\* pi / 2, pi and 2 pi in fixed point.
HalfPiFix == 25736
PiFix == 51472
TwoPiFix == 102944

\* sin on [0, pi/2] in fixed point: x (1 - x^2/6 (1 - x^2/20 (1 - x^2/42 (1 - x^2/72)))).
SinQuadrantFix(x) ==
  LET x2 == (x * x) \div FixOne
      q4 == FixOne - x2 \div 72
      q3 == FixOne - (x2 * q4) \div (42 * FixOne)
      q2 == FixOne - (x2 * q3) \div (20 * FixOne)
      q1 == FixOne - (x2 * q2) \div (6 * FixOne)
  IN (x * q1) \div FixOne

\* sin and cos of any fixed-point angle, reduced to the first quadrant.
SinFix(n) ==
  LET r == n % TwoPiFix
  IN IF r <= HalfPiFix THEN SinQuadrantFix(r)
     ELSE IF r <= PiFix THEN SinQuadrantFix(PiFix - r)
     ELSE IF r <= PiFix + HalfPiFix THEN 0 - SinQuadrantFix(r - PiFix)
     ELSE 0 - SinQuadrantFix(TwoPiFix - r)
CosFix(n) == SinFix(HalfPiFix - n)

\* The angle in [lo, hi] within [0, pi] whose cosine is c: cos decreases there.
RECURSIVE AcosSearch(_, _, _)
AcosSearch(c, lo, hi) ==
  IF hi - lo <= 1 THEN lo
  ELSE LET mid == (lo + hi) \div 2
       IN IF CosFix(mid) > c THEN AcosSearch(c, mid, hi) ELSE AcosSearch(c, lo, mid)

\* A finite float of magnitude below 2^6 in fixed point (truncated), signed.
ToFix(a) ==
  LET sh == a.e + FixBits
      n == IF sh >= 0 THEN a.m * 2 ^ sh
           ELSE IF sh + Precision <= 0 THEN 0 ELSE a.m \div 2 ^ (0 - sh)
  IN IF a.s = 1 THEN 0 - n ELSE n

\* The floats next to the fixed-point values lo .. hi.
FixOutcomes(lo, hi) ==
  {RoundToward(IF n < 0 THEN 1 ELSE 0, IF n < 0 THEN 0 - n ELSE n, 0 - FixBits, away) :
     n \in lo .. hi, away \in BOOLEAN}

\* Every float of magnitude at most 1.
UnitRange ==
  {Lit(s, m, e) : s \in {0, 1}, m \in 0 .. 2 ^ Precision - 1, e \in QMin .. 0 - Precision}
    \cup {F1, Lit(1, 1, 0)}

\* The float next to a toward zero.
TowardZero(a) ==
  IF a.m = 0 THEN a
  ELSE IF a.m = 2 ^ (Precision - 1) /\ a.e > QMin
       THEN [a EXCEPT !.m = 2 ^ Precision - 1, !.e = a.e - 1]
       ELSE [a EXCEPT !.m = a.m - 1]

\* f32::acos: the values a call can return.  NaN outside [-1, 1]; acos(1) = 0.
facos(x) ==
  IF IsNaN(x) \/ IsInf(x) \/ fgt(fabs(x), F1) THEN {NaN}
  ELSE IF x = F1 THEN {F0}
  ELSE LET t == AcosSearch(ToFix(x), 0, PiFix)
       IN FixOutcomes(t - FixSlack, t + FixSlack)

\* f32::sin: the values a call can return.  NaN for NaN and the infinities;
\* sin(+-0) = +-0; no value exceeds 1 in magnitude; below 2^-4 the value lies
\* between x and its neighbour toward zero; from 2^6 on the reduction is not
\* followed and any value of [-1, 1] is allowed.
fsin(x) ==
  IF IsNaN(x) \/ IsInf(x) THEN {NaN}
  ELSE IF IsZeroF(x) THEN {x}
  ELSE IF MagLess(fabs(x), Lit(0, 1, -4)) THEN {x, TowardZero(x)}
  ELSE IF ~MagLess(fabs(x), Lit(0, 1, 6)) THEN UnitRange
  ELSE LET v == SinFix(ToFix(x))
       IN {r \in FixOutcomes(v - FixSlack, v + FixSlack) : ~fgt(fabs(r), F1)}

\* 1.0 - EPSILON as f32 computes it, 16777199 * 2^-24, kept at the width of
\* f32: narrowed to Precision bits it would be 1.0 and no dot product could
\* exceed it.  x > 1.0 - EPSILON for a float x of the modelled width.
OneMinusEpsilonBits == 16777199
GtOneMinusEpsilon(x) ==
  /\ ~IsNaN(x)
  /\ x.s = 0
  /\ \/ IsInf(x)
     \/ /\ x.m > 0
        /\ \/ x.e >= 0
           \/ /\ x.e + F32Precision >= 0
              /\ x.m * 2 ^ (x.e + F32Precision) > OneMinusEpsilonBits

\* The great-circle weighted sum of slerp for the clamped dot d.
great_circle(a, b, t, d) ==
  UNION {UNION {UNION {UNION {
    {add(mul(a, fdiv(sa, sin_angle)), mul(b, fdiv(sb, sin_angle)))} :
      sb \in fsin(fmul(t, angle))} :
      sa \in fsin(fmul(fsub(F1, t), angle))} :
      sin_angle \in fsin(angle)} :
      angle \in facos(d)}

\* A slerp without the near-parallel fallback.
slerp_great_circle_only(a, b, t) == great_circle(a, b, t, fclamp(dot(a, b), fneg(F1), F1))

\* Vec3::slerp: the vectors a call can return.
slerp(a, b, t) ==
  LET d == fclamp(dot(a, b), fneg(F1), F1)
  IN IF GtOneMinusEpsilon(fabs(d)) THEN {normalize(lerp(a, b, t))}
     ELSE great_circle(a, b, t, d)

\* A projection that forgets to divide by the squared length of the target.
project_onto_unscaled(a, b) == mul(b, dot(a, b))

\* Vec3::project_onto, Vec3::reject_from.
project_onto(a, b) == mul(b, fdiv(dot(a, b), length_squared(b)))
reject_from(a, b) == sub(a, project_onto(a, b))

\* [f32; 3] is a function on 0..2 (arr[0], arr[1], arr[2]); (f32, f32, f32) is
\* a tuple whose fields .0, .1, .2 are its elements 1, 2, 3.
\* A conversion from an array that reads it back to front.
from_array_reversed(arr) == new(arr[2], arr[1], arr[0])

\* impl From<[f32; 3]> for Vec3, impl From<Vec3> for [f32; 3].
from_array(arr) == new(arr[0], arr[1], arr[2])
into_array(vec) == [i \in 0 .. 2 |-> IF i = 0 THEN vec.x ELSE IF i = 1 THEN vec.y ELSE vec.z]

\* impl From<(f32, f32, f32)> for Vec3, impl From<Vec3> for (f32, f32, f32).
from_tuple(tuple) == new(tuple[1], tuple[2], tuple[3])
into_tuple(vec) == <<vec.x, vec.y, vec.z>>

\* Vec3::extend, Vec3::to_point, Vec3::to_direction.
extend(v, w) == new4(v.x, v.y, v.z, w)
to_point(v) == extend(v, F1)
to_direction(v) == extend(v, F0)

\* A truncate that drops x instead of w.
truncate_shifted(v) == new(v.y, v.z, v.w)

\* Vec4::truncate.
truncate(v) == new(v.x, v.y, v.z)

\* A clamp that applies the upper bound first: self.min(max).max(min).
clamp_upper_first(v, lo, hi) == UNION {max(m, lo) : m \in min(v, hi)}

\* A clamp that orders its two bounds first.
clamp_ordered_bounds(v, lo, hi) ==
  UNION {UNION {UNION {min(m, h) : m \in max(v, l)} : h \in max(lo, hi)} : l \in min(lo, hi)}

\* Vec3::clamp: self.max(min).min(max), the lower bound applied first.
clamp(v, lo, hi) == UNION {min(m, hi) : m \in max(v, lo)}

\* A max_component that compares the signed components.
max_component_signed(v) == UNION {fmax(m, v.z) : m \in fmax(v.x, v.y)}

\* Vec3::max_component, Vec3::min_component: the values a call can return.
max_component(v) == UNION {fmax(m, fabs(v.z)) : m \in fmax(fabs(v.x), fabs(v.y))}
min_component(v) == UNION {fmin(m, fabs(v.z)) : m \in fmin(fabs(v.x), fabs(v.y))}

\* A division that divides every component instead of multiplying by 1/scalar.
div_per_component(v, k) == new(fdiv(v.x, k), fdiv(v.y, k), fdiv(v.z, k))

\* impl Div<f32> for Vec3: one reciprocal, three products.
div(v, k) ==
  LET inv_scalar == fdiv(F1, k)
  IN new(fmul(v.x, inv_scalar), fmul(v.y, inv_scalar), fmul(v.z, inv_scalar))

\* impl AddAssign / SubAssign / MulAssign<f32> / DivAssign<f32> for Vec3: the
\* value stored into *self.
add_assign(v, o) == add(v, o)
sub_assign(v, o) == sub(v, o)
mul_assign(v, k) == mul(v, k)
div_assign(v, k) == div(v, k)

\* A distance that adds the operands instead of subtracting them.
distance_to_sum(a, b) == length(add(a, b))

\* Vec3::distance_to, Vec3::distance_squared_to.
distance_to(a, b) == length(sub(a, b))
distance_squared_to(a, b) == length_squared(sub(a, b))

\* ----------------------------------------------------------- operations
\* A panic unwinds the caller: nothing runs after it.
Running == out.tag # "panic"

\* let r = self[i];
IndexRead(i) ==
  /\ Running
  /\ op' = "index"
  /\ args' = <<i>>
  /\ prev' = self
  /\ out' = index(self, i)
  /\ UNCHANGED <<frames, feature, self, other, scalar, v4>>

\* self[i] = val;
IndexWrite(i, val) ==
  LET place == index_mut(self, i)
  IN /\ Running
     /\ op' = "index_mut"
     /\ args' = <<i, val>>
     /\ prev' = self
     /\ out' = IF place.tag = "panic" THEN place ELSE Ret(val)
     /\ self' = IF place.tag = "panic" THEN self ELSE [self EXCEPT ![place.val] = val]
     /\ UNCHANGED <<frames, feature, other, scalar, v4>>

\* let r = self.swizzle(i, j, k);
Swizzle(i, j, k) ==
  /\ Running
  /\ op' = "swizzle"
  /\ args' = <<i, j, k>>
  /\ prev' = self
  /\ out' = swizzle(self, i, j, k)
  /\ UNCHANGED <<frames, feature, self, other, scalar, v4>>

\* --------------------------------------------- indexed access: C1 and C7
Indices == 0 .. MaxIndex
\* Three distinct component values, so that a swapped field shows.
IndexVals == {Lit(0, 1, 0), Lit(0, 2, 0), Lit(1, 3, 0)}
V4Zero == [x |-> F0, y |-> F0, z |-> F0, w |-> F0]

InitIndex ==
  /\ feature = FALSE
  /\ self \in [x : IndexVals, y : IndexVals, z : IndexVals]
  /\ other = zero
  /\ scalar = F0
  /\ v4 = V4Zero
  /\ op = "init"
  /\ args = <<>>
  /\ prev = self
  /\ out = NoCall
  /\ frames = NoFrames

NextIndex ==
  \/ \E i \in Indices : IndexRead(i)
  \/ \E i \in Indices, val \in IndexVals : IndexWrite(i, val)
  \/ \E i \in Indices, j \in Indices, k \in Indices : Swizzle(i, j, k)

SpecIndex == InitIndex /\ [][NextIndex]_vars

\* The field an index names.
FieldOf(v, i) == IF i = 0 THEN v.x ELSE IF i = 1 THEN v.y ELSE v.z

\* C1: indexed read and write map 0 to x, 1 to y, 2 to z; every other index
\* panics with "Index out of bounds", returns nothing, is not wrapped, and
\* leaves the vector as it was.
C1_IndexAccess ==
  /\ op = "index" =>
       LET i == args[1]
       IN IF i \in {0, 1, 2}
          THEN out = Ret(FieldOf(prev, i)) /\ self = prev
          ELSE out.tag = "panic" /\ out.msg = "Index out of bounds for Vec3"
               /\ out.index = i /\ self = prev
  /\ op = "index_mut" =>
       LET i == args[1]
           val == args[2]
       IN IF i \in {0, 1, 2}
          THEN /\ out.tag = "ret"
               /\ FieldOf(self, i) = val
               /\ \A j \in {0, 1, 2} \ {i} : FieldOf(self, j) = FieldOf(prev, j)
          ELSE out.tag = "panic" /\ out.msg = "Index out of bounds for Vec3"
               /\ out.index = i /\ self = prev

\* A write through index 3 has panicked and left the vector alone.
C1_Witness_OutOfRangeWrite ==
  /\ op = "index_mut"
  /\ args[1] = 3
  /\ out.tag = "panic"
  /\ self = prev

\* C7: swizzle(i,j,k) with all indices valid returns (self[i], self[j], self[k])
\* and leaves self unchanged; one invalid index, wherever it stands, panics
\* with the failure of indexing.
C7_Swizzle ==
  op = "swizzle" =>
    LET i == args[1]
        j == args[2]
        k == args[3]
    IN /\ self = prev
       /\ IF {i, j, k} \subseteq {0, 1, 2}
          THEN out = Ret(new(FieldOf(prev, i), FieldOf(prev, j), FieldOf(prev, k)))
          ELSE /\ out.tag = "panic"
               /\ out.msg = "Index out of bounds for Vec3"
               /\ out.index \in {i, j, k} \ {0, 1, 2}

\* swizzle(2, 1, 0) returned the reversed vector of distinct components.
C7_Witness_Reversed ==
  /\ op = "swizzle"
  /\ args = <<2, 1, 0>>
  /\ prev.x # prev.z
  /\ out = Ret(new(prev.z, prev.y, prev.x))

\* ------------------------------------- normalization: C2, C3 and C4
\* let r = self.normalize();
Normalize ==
  /\ Running
  /\ op' = "normalize"
  /\ args' = <<>>
  /\ prev' = self
  /\ out' = Ret(normalize(self))
  /\ UNCHANGED <<frames, feature, self, other, scalar, v4>>

\* let r = self.normalize_fast();
NormalizeFast ==
  /\ Running
  /\ op' = "normalize_fast"
  /\ args' = <<>>
  /\ prev' = self
  /\ out' = Ret(normalize_fast(self))
  /\ UNCHANGED <<frames, feature, self, other, scalar, v4>>

\* let r = self.try_normalize();
TryNormalize ==
  /\ Running
  /\ op' = "try_normalize"
  /\ args' = <<>>
  /\ prev' = self
  /\ out' = Ret(try_normalize(self))
  /\ UNCHANGED <<frames, feature, self, other, scalar, v4>>

\* Components around the near-zero threshold, ordinary ones, one whose square
\* overflows, and the non-finite ones: 0, 1e-8, the float below EPSILON,
\* EPSILON, 1, -1, 3, 4, 1e20, +inf, NaN, and 1e-10, 1e10.
NormVals ==
  {F0, Lit(0, 11258999, -50), Lit(0, 15, -24), EPSILON, F1, Lit(1, 1, 0),
   Lit(0, 3, 0), Lit(0, 4, 0), Lit(0, 11368684, 43), Inf(0), NaN,
   Lit(0, 14411519, -57), Lit(0, 9765625, 10)}

InitNormalize ==
  /\ feature \in BOOLEAN
  /\ self \in [x : NormVals, y : NormVals, z : NormVals]
  /\ other = zero
  /\ scalar = F0
  /\ v4 = V4Zero
  /\ op = "init"
  /\ args = <<>>
  /\ prev = self
  /\ out = NoCall
  /\ frames = NoFrames

NextNormalize ==
  \/ Normalize
  \/ NormalizeFast
  \/ TryNormalize

SpecNormalize == InitNormalize /\ [][NextNormalize]_vars

\* length_squared < EPSILON * EPSILON: the near-zero test of the claims.
NearZero(v) == flt(length_squared(v), fmul(EPSILON, EPSILON))

\* C2: when v is the zero vector, has length below EPSILON, or has
\* length_squared < EPSILON^2, normalize returns exactly the zero vector and
\* try_normalize returns None; try_normalize returns None on exactly the
\* inputs on which normalize takes its near-zero branch, and Some on all others.
C2_NearZeroPolicy ==
  /\ op = "normalize" =>
       /\ (prev = zero \/ flt(length(prev), EPSILON) \/ NearZero(prev)) => out = Ret(zero)
       /\ ~NearZero(prev) => out = Ret(mul(prev, fast_inv_sqrt(length_squared(prev))))
  /\ op = "try_normalize" =>
       /\ (prev = zero \/ flt(length(prev), EPSILON) \/ NearZero(prev)) => out = Ret(None)
       /\ ~NearZero(prev) => out.val.some
       /\ self = prev

\* try_normalize has returned None for a non-zero vector shorter than EPSILON.
C2_Witness_TinyIsNone ==
  /\ op = "try_normalize"
  /\ prev # zero
  /\ flt(length(prev), EPSILON)
  /\ fgt(length(prev), F0)
  /\ out = Ret(None)

\* C3: for every vector that is not near-zero, try_normalize returns Some(r)
\* with r the vector normalize returns, with the feature enabled or disabled.
C3_TryNormalizeAgrees ==
  (op = "try_normalize" /\ ~NearZero(prev)) => out = Ret(Some(normalize(prev)))

\* C4: normalize_fast returns exactly the zero vector for precisely the
\* near-zero inputs, and on every other input returns the input scaled by the
\* configured reciprocal square root of length_squared.
C4_NormalizeFastPolicy ==
  op = "normalize_fast" =>
    /\ (out.val = zero) <=> NearZero(prev)
    /\ ~NearZero(prev) => out = Ret(mul(prev, fast_inv_sqrt(length_squared(prev))))

\* The tolerance 1e-5 of the unit-length test, widened to what a significand of
\* Precision bits resolves.
UnitTolerance == Lit(0, 1, 2 - Precision)

\* C19, in the build without the feature and at the tolerance the modelled
\* significand resolves: for every finite vector that is not near-zero,
\* normalize returns a vector of unit length (not the zero vector, length
\* within the tolerance of 1), vectors with components as large as 1e20 and
\* (1e10, 1e-10, 1) included.
C19_NormalizeUnitLength ==
  (op = "normalize" /\ ~feature /\ IsFin(prev.x) /\ IsFin(prev.y) /\ IsFin(prev.z)
     /\ ~NearZero(prev)) =>
    /\ ~veq(out.val, zero)
    /\ flt(fabs(fsub(length(out.val), F1)), UnitTolerance)

\* ------------------------------------------ perspective truncation: C5
\* let r = v4.truncate_with_perspective();
TruncateWithPerspective ==
  /\ Running
  /\ op' = "truncate_with_perspective"
  /\ args' = <<>>
  /\ prev' = self
  /\ out' = Ret(truncate_with_perspective(v4))
  /\ UNCHANGED <<frames, feature, self, other, scalar, v4>>

\* x, y, z: 0, 1, 2, 3, 4, 6, -6, +inf.
PerspXYZ ==
  {F0, F1, Lit(0, 2, 0), Lit(0, 3, 0), Lit(0, 4, 0), Lit(0, 6, 0), Lit(1, 6, 0), Inf(0)}
\* w: +-0, +-1e-8, the float below EPSILON, +-EPSILON, 1, +-2, 3, +inf, NaN.
PerspW ==
  {F0, FZero(1), Lit(0, 11258999, -50), Lit(1, 11258999, -50), Lit(0, 15, -24),
   EPSILON, fneg(EPSILON), F1, Lit(0, 2, 0), Lit(1, 2, 0), Lit(0, 3, 0), Inf(0), NaN}

InitPerspective ==
  /\ feature = FALSE
  /\ self = zero
  /\ other = zero
  /\ scalar = F0
  /\ v4 \in [x : PerspXYZ, y : PerspXYZ, z : PerspXYZ, w : PerspW]
  /\ op = "init"
  /\ args = <<>>
  /\ prev = self
  /\ out = NoCall
  /\ frames = NoFrames

NextPerspective == TruncateWithPerspective

SpecPerspective == InitPerspective /\ [][NextPerspective]_vars

\* C5: truncate_with_perspective returns the zero Vec3 when |w| < EPSILON and
\* (x/w, y/w, z/w) otherwise, and never fails; (2,4,6,2) gives (1,2,3) and
\* (1,2,3,0) gives (0,0,0).
C5_PerspectiveDivide ==
  op = "truncate_with_perspective" =>
    /\ out.tag = "ret"
    /\ IF flt(fabs(v4.w), EPSILON)
       THEN out.val = zero
       ELSE /\ out.val.x = fdiv(v4.x, v4.w)
            /\ out.val.y = fdiv(v4.y, v4.w)
            /\ out.val.z = fdiv(v4.z, v4.w)
    /\ v4 = new4(Lit(0, 2, 0), Lit(0, 4, 0), Lit(0, 6, 0), Lit(0, 2, 0))
         => out.val = new(F1, Lit(0, 2, 0), Lit(0, 3, 0))
    /\ v4 = new4(F1, Lit(0, 2, 0), Lit(0, 3, 0), F0) => out.val = zero

\* A negative w smaller in magnitude than EPSILON has given the zero vector.
C5_Witness_TinyNegativeW ==
  /\ op = "truncate_with_perspective"
  /\ v4.w = Lit(1, 11258999, -50)
  /\ v4.x = Lit(0, 6, 0)
  /\ out = Ret(zero)

\* ------------------------------------------------------ refraction: C6
\* let r = self.refract(other, scalar);
Refract ==
  /\ Running
  /\ op' = "refract"
  /\ args' = <<>>
  /\ prev' = self
  /\ out' = Ret(refract(self, other, scalar))
  /\ UNCHANGED <<frames, feature, self, other, scalar, v4>>

\* Incident components -1, 0, 0.5, 1, NaN; normal components -1, 0, 1;
\* eta 0, 0.5, 0.75, 1, 2, +inf, NaN.
RefractSelf == {Lit(1, 1, 0), F0, F0_5, F1, NaN}
RefractNormal == {Lit(1, 1, 0), F0, F1}
RefractEta == {F0, F0_5, Lit(0, 3, -2), F1, Lit(0, 2, 0), Inf(0), NaN}

InitRefract ==
  /\ feature = FALSE
  /\ self \in [x : RefractSelf, y : RefractSelf, z : RefractSelf]
  /\ other \in [x : RefractNormal, y : RefractNormal, z : RefractNormal]
  /\ scalar \in RefractEta
  /\ v4 = V4Zero
  /\ op = "init"
  /\ args = <<>>
  /\ prev = self
  /\ out = NoCall
  /\ frames = NoFrames

NextRefract == Refract

SpecRefract == InitRefract /\ [][NextRefract]_vars

\* cosI = -dot(self, normal) and sin2T = eta*eta*(1 - cosI*cosI) of the claim.
CosI == fneg(dot(prev, other))
Sin2T == fmul(fmul(scalar, scalar), fsub(F1, fmul(CosI, CosI)))

Dot ==
  /\ Running
  /\ op' = "dot"
  /\ args' = <<>>
  /\ prev' = self
  /\ out' = Ret(dot(self, other))
  /\ UNCHANGED <<frames, feature, self, other, scalar, v4>>

\* let r = self.cross(other);
Cross ==
  /\ Running
  /\ op' = "cross"
  /\ args' = <<>>
  /\ prev' = self
  /\ out' = Ret(cross(self, other))
  /\ UNCHANGED <<frames, feature, self, other, scalar, v4>>

\* let r = self.cross(self * k);
CrossParallel(k) ==
  /\ Running
  /\ op' = "cross_parallel"
  /\ args' = <<k>>
  /\ prev' = self
  /\ other' = mul(self, k)
  /\ out' = Ret(cross(self, mul(self, k)))
  /\ UNCHANGED <<frames, feature, self, scalar, v4>>

\* Components 0, 1, -11 (its square needs rounding) and +-2^100 (their products
\* overflow); the vectors (1,2,3) and (4,5,6) of the tests.
ProdVals == {F0, F1, Lit(1, 11, 0), Lit(0, 1, 100), Lit(1, 1, 100)}
ProdVecs ==
  [x : ProdVals, y : ProdVals, z : ProdVals]
    \cup {new(F1, Lit(0, 2, 0), Lit(0, 3, 0)), new(Lit(0, 4, 0), Lit(0, 5, 0), Lit(0, 6, 0))}
\* Scale factors 1, 2, -0.5, 11.
ParallelK == {F1, Lit(0, 2, 0), Lit(1, 1, -1), Lit(0, 11, 0)}

InitProducts ==
  /\ feature = FALSE
  /\ self \in ProdVecs
  /\ other \in ProdVecs
  /\ scalar = F0
  /\ v4 = V4Zero
  /\ op = "init"
  /\ args = <<>>
  /\ prev = self
  /\ out = NoCall
  /\ frames = NoFrames

NextProducts ==
  \/ Dot
  \/ Cross
  \/ \E k \in ParallelK : CrossParallel(k)

SpecProducts == InitProducts /\ [][NextProducts]_vars

\* C8 as stated: a.dot(b) == b.dot(a) for all vectors a and b.
C8_DotCommutes_AsStated ==
  op = "dot" => feq(out.val, dot(other, self))

\* C8, amended: whenever a.dot(b) is not NaN, a.dot(b) == b.dot(a); when it is
\* NaN so is b.dot(a).  dot is the sum of the three pairwise products, and
\* (1,2,3).dot((4,5,6)) == 32.
C8_DotCommutes ==
  op = "dot" =>
    /\ ~IsNaN(out.val) => feq(out.val, dot(other, self))
    /\ IsNaN(out.val) => IsNaN(dot(other, self))
    /\ out.val = fadd(fadd(fmul(self.x, other.x), fmul(self.y, other.y)),
                      fmul(self.z, other.z))
    /\ (self = new(F1, Lit(0, 2, 0), Lit(0, 3, 0))
          /\ other = new(Lit(0, 4, 0), Lit(0, 5, 0), Lit(0, 6, 0)))
         => out.val = Lit(0, 32, 0)

\* (1,2,3).dot((4,5,6)) has returned 32.
C8_Witness_ThirtyTwo ==
  /\ op = "dot"
  /\ self = new(F1, Lit(0, 2, 0), Lit(0, 3, 0))
  /\ other = new(Lit(0, 4, 0), Lit(0, 5, 0), Lit(0, 6, 0))
  /\ out = Ret(Lit(0, 32, 0))

HasNaN(v) == IsNaN(v.x) \/ IsNaN(v.y) \/ IsNaN(v.z)

\* The three unit-vector identities of C9.
UnitCrosses ==
  /\ (self = unit_x /\ other = unit_y) => veq(out.val, unit_z)
  /\ (self = unit_y /\ other = unit_z) => veq(out.val, unit_x)
  /\ (self = unit_z /\ other = unit_x) => veq(out.val, unit_y)

\* C9 as stated: a.cross(b) == -(b.cross(a)) for all vectors a and b.
C9_CrossAnticommutes_AsStated ==
  op = "cross" => (veq(out.val, neg(cross(other, self))) /\ UnitCrosses)

\* C9, amended: cross is the right-handed determinant formula; whenever no
\* component of a.cross(b) is NaN, a.cross(b) == -(b.cross(a)); and
\* unit_x x unit_y == unit_z, unit_y x unit_z == unit_x, unit_z x unit_x == unit_y.
C9_CrossAnticommutes ==
  op = "cross" =>
    /\ out.val.x = fsub(fmul(self.y, other.z), fmul(self.z, other.y))
    /\ out.val.y = fsub(fmul(self.z, other.x), fmul(self.x, other.z))
    /\ out.val.z = fsub(fmul(self.x, other.y), fmul(self.y, other.x))
    /\ ~HasNaN(out.val) => veq(out.val, neg(cross(other, self)))
    /\ UnitCrosses

\* unit_z.cross(unit_x) has returned unit_y.
C9_Witness_UnitZX ==
  /\ op = "cross"
  /\ self = unit_z
  /\ other = unit_x
  /\ veq(out.val, unit_y)

\* The magnitude m * 2^e is a value of the format: rounding it changes nothing.
ExactFin(m, e) ==
  \/ m = 0
  \/ LET L == BitLen(m)
         q0 == IF e + L - Precision > QMin THEN e + L - Precision ELSE QMin
         sh == q0 - e
     IN /\ e + L - 1 <= EMax
        /\ sh <= 0 \/ (sh <= L /\ m % 2 ^ sh = 0)

\* a * b, a + b and a - b of finite operands are computed without rounding
\* and without overflow.
MulExact(a, b) == IsFin(a) /\ IsFin(b) /\ ExactFin(a.m * b.m, a.e + b.e)
AddExact(a, b) ==
  /\ IsFin(a)
  /\ IsFin(b)
  /\ \/ IsZeroF(a)
     \/ IsZeroF(b)
     \/ LET hi == IF a.e >= b.e THEN a ELSE b
            lo == IF a.e >= b.e THEN b ELSE a
            d == hi.e - lo.e
            mh == hi.m * 2 ^ d
            sum == IF hi.s = lo.s THEN mh + lo.m ELSE mh - lo.m
        IN d <= Precision + 2 /\ ExactFin(IF sum < 0 THEN 0 - sum ELSE sum, lo.e)
SubExact(a, b) == AddExact(a, fneg(b))

\* Every product and difference of a.cross(b) is exact.
CrossExact(a, b) ==
  /\ MulExact(a.y, b.z) /\ MulExact(a.z, b.y) /\ SubExact(fmul(a.y, b.z), fmul(a.z, b.y))
  /\ MulExact(a.z, b.x) /\ MulExact(a.x, b.z) /\ SubExact(fmul(a.z, b.x), fmul(a.x, b.z))
  /\ MulExact(a.x, b.y) /\ MulExact(a.y, b.x) /\ SubExact(fmul(a.x, b.y), fmul(a.y, b.x))

\* Every product and sum of a.dot(b) is exact.
DotExact(a, b) ==
  /\ MulExact(a.x, b.x) /\ MulExact(a.y, b.y) /\ MulExact(a.z, b.z)
  /\ AddExact(fmul(a.x, b.x), fmul(a.y, b.y))
  /\ AddExact(fadd(fmul(a.x, b.x), fmul(a.y, b.y)), fmul(a.z, b.z))

\* Every product of a * k is exact.
ScaleExact(a, k) == MulExact(a.x, k) /\ MulExact(a.y, k) /\ MulExact(a.z, k)

\* C10 as stated: a.cross(b).dot(a) == 0 and a.cross(b).dot(b) == 0 for all
\* vectors, and a.cross(a * k) is the zero vector for every scalar k.
C10_CrossOrthogonal_AsStated ==
  /\ op = "cross" => (feq(dot(out.val, self), F0) /\ feq(dot(out.val, other), F0))
  /\ op = "cross_parallel" => veq(out.val, zero)

\* C10, amended: whenever the products and sums involved are computed exactly
\* (no rounding, no overflow), a.cross(b).dot(a) == 0 and a.cross(b).dot(b) == 0,
\* and a.cross(a * k) is the zero vector (k = 1 gives a.cross(a)).
C10_CrossOrthogonal ==
  /\ (op = "cross" /\ CrossExact(self, other)) =>
       /\ DotExact(out.val, self) => feq(dot(out.val, self), F0)
       /\ DotExact(out.val, other) => feq(dot(out.val, other), F0)
  /\ (op = "cross_parallel" /\ ScaleExact(self, args[1]) /\ CrossExact(self, mul(self, args[1])))
       => (other = mul(self, args[1]) /\ veq(out.val, zero))

\* (1,2,3).cross((4,5,6)) has returned (-3, 6, -3), computed exactly, and it is
\* orthogonal to both operands.
C10_Witness_ExactOrthogonal ==
  /\ op = "cross"
  /\ self = new(F1, Lit(0, 2, 0), Lit(0, 3, 0))
  /\ other = new(Lit(0, 4, 0), Lit(0, 5, 0), Lit(0, 6, 0))
  /\ out = Ret(new(Lit(1, 3, 0), Lit(0, 6, 0), Lit(1, 3, 0)))
  /\ CrossExact(self, other)
  /\ DotExact(out.val, self)
  /\ DotExact(out.val, other)
  /\ feq(dot(out.val, self), F0)
  /\ feq(dot(out.val, other), F0)

\* ------------------------------------------------ linear interpolation: C11
\* let r = self.lerp(other, scalar);
Lerp ==
  /\ Running
  /\ op' = "lerp"
  /\ args' = <<scalar>>
  /\ prev' = self
  /\ out' = Ret(lerp(self, other, scalar))
  /\ UNCHANGED <<frames, feature, self, other, scalar, v4>>

\* x: 0, 1, 4, -3, 2^10 (1 - 2^10 rounds), +-2^127 (their difference overflows);
\* y: 0, 6, 2^10;  z: 0, 8.  t: 0, 1, 0.5, 0.25, 2, -1.
LerpX == {F0, F1, Lit(0, 4, 0), Lit(1, 3, 0), Lit(0, 1, 10), Lit(0, 1, 127), Lit(1, 1, 127)}
LerpY == {F0, Lit(0, 6, 0), Lit(0, 1, 10)}
LerpZ == {F0, Lit(0, 8, 0)}
LerpT == {F0, F1, F0_5, Lit(0, 1, -2), Lit(0, 2, 0), Lit(1, 1, 0)}

InitLerp ==
  /\ feature = FALSE
  /\ self \in [x : LerpX, y : LerpY, z : LerpZ]
  /\ other \in [x : LerpX, y : LerpY, z : LerpZ]
  /\ scalar \in LerpT
  /\ v4 = V4Zero
  /\ op = "init"
  /\ args = <<>>
  /\ prev = self
  /\ out = NoCall
  /\ frames = NoFrames

NextLerp == Lerp

SpecLerp == InitLerp /\ [][NextLerp]_vars

LerpAxis(a, b, t, o) ==
  LET d == fsub(b, a)
  IN /\ o = fadd(a, fmul(d, t))
     /\ (t = F0 /\ IsFin(a) /\ IsFin(d)) => feq(o, a)
     /\ (t = F1 /\ SubExact(b, a)) => feq(o, b)
     /\ (t = F0_5 /\ SubExact(b, a) /\ MulExact(d, t) /\ AddExact(a, fmul(d, t)))
          => feq(fsub(o, a), fsub(b, o))

ProjectOnto ==
  /\ Running
  /\ op' = "project_onto"
  /\ args' = <<>>
  /\ prev' = self
  /\ out' = Ret(project_onto(self, other))
  /\ UNCHANGED <<frames, feature, self, other, scalar, v4>>

\* let r = self.reject_from(other);
RejectFrom ==
  /\ Running
  /\ op' = "reject_from"
  /\ args' = <<>>
  /\ prev' = self
  /\ out' = Ret(reject_from(self, other))
  /\ UNCHANGED <<frames, feature, self, other, scalar, v4>>

\* self: x, y in 0, 1, 3, 4, -2 and z in 0, 1.  other: components 0, 1, 2, and
\* the non-zero vectors whose squared length underflows to 0 or overflows.
ProjXY == {F0, F1, Lit(0, 3, 0), Lit(0, 4, 0), Lit(1, 2, 0)}
ProjZ == {F0, F1}
ProjOnto == {F0, F1, Lit(0, 2, 0)}
ProjTargets ==
  [x : ProjOnto, y : ProjOnto, z : ProjOnto]
    \cup {new(Lit(0, 1, -100), F0, F0), new(Lit(0, 1, 100), F0, F0)}

InitProject ==
  /\ feature = FALSE
  /\ self \in [x : ProjXY, y : ProjXY, z : ProjZ]
  /\ other \in ProjTargets
  /\ scalar = F0
  /\ v4 = V4Zero
  /\ op = "init"
  /\ args = <<>>
  /\ prev = self
  /\ out = NoCall
  /\ frames = NoFrames

NextProject ==
  \/ ProjectOnto
  \/ RejectFrom

SpecProject == InitProject /\ [][NextProject]_vars

\* The three identities of C12 for the projection p and the rejection r of a on b.
ProjectionIdentities(a, b, p, r) ==
  /\ veq(add(p, r), a)
  /\ feq(dot(r, b), F0)
  /\ veq(cross(p, b), zero)

DivExact(a, b) ==
  /\ IsFin(a)
  /\ IsFin(b)
  /\ ~IsZeroF(b)
  /\ IsFin(fdiv(a, b))
  /\ MulExact(fdiv(a, b), b)
  /\ feq(fmul(fdiv(a, b), b), a)

\* Every step of a.project_onto(b) and of a - p is computed without rounding.
ProjectExact(a, b) ==
  /\ DotExact(a, b)
  /\ DotExact(b, b)
  /\ DivExact(dot(a, b), dot(b, b))
  /\ ScaleExact(b, fdiv(dot(a, b), dot(b, b)))
RejectExact(a, p) == SubExact(a.x, p.x) /\ SubExact(a.y, p.y) /\ SubExact(a.z, p.z)

IntoArray ==
  /\ Running
  /\ op' = "into_array"
  /\ args' = <<>>
  /\ prev' = self
  /\ out' = Ret(into_array(self))
  /\ UNCHANGED <<frames, feature, self, other, scalar, v4>>

\* let tuple: (f32, f32, f32) = self.into();
IntoTuple ==
  /\ Running
  /\ op' = "into_tuple"
  /\ args' = <<>>
  /\ prev' = self
  /\ out' = Ret(into_tuple(self))
  /\ UNCHANGED <<frames, feature, self, other, scalar, v4>>

\* let r: Vec3 = arr.into();
FromArray(arr) ==
  /\ Running
  /\ op' = "from_array"
  /\ args' = <<arr>>
  /\ prev' = self
  /\ out' = Ret(from_array(arr))
  /\ UNCHANGED <<frames, feature, self, other, scalar, v4>>

\* let r: Vec3 = tuple.into();
FromTuple(tuple) ==
  /\ Running
  /\ op' = "from_tuple"
  /\ args' = <<tuple>>
  /\ prev' = self
  /\ out' = Ret(from_tuple(tuple))
  /\ UNCHANGED <<frames, feature, self, other, scalar, v4>>

\* Vector components 0, -0, 1, -3, the smallest subnormal, +inf, NaN; array and
\* tuple elements -0, 2, NaN.
ConvVals == {F0, FZero(1), F1, Lit(1, 3, 0), Lit(0, 1, QMin), Inf(0), NaN}
ConvElems == {FZero(1), Lit(0, 2, 0), NaN}
ConvArrays == [0 .. 2 -> ConvElems]
ConvTuples == ConvElems \X ConvElems \X ConvElems

InitConvert ==
  /\ feature = FALSE
  /\ self \in [x : ConvVals, y : ConvVals, z : ConvVals]
  /\ other = zero
  /\ scalar = F0
  /\ v4 = V4Zero
  /\ op = "init"
  /\ args = <<>>
  /\ prev = self
  /\ out = NoCall
  /\ frames = NoFrames

NextConvert ==
  \/ IntoArray
  \/ IntoTuple
  \/ \E arr \in ConvArrays : FromArray(arr)
  \/ \E tuple \in ConvTuples : FromTuple(tuple)

SpecConvert == InitConvert /\ [][NextConvert]_vars

\* C13: a Vec3 becomes the array [x, y, z] / the tuple (x, y, z) and converting
\* that back gives a vector with exactly the original x, y, z in the same
\* order; an array or tuple becomes the Vec3 of its elements in order and
\* converting that back gives the original array or tuple.  Every value is
\* carried over as it is (NaN, -0.0 and subnormals included).
C13_ConversionRoundTrip ==
  /\ op = "into_array" =>
       /\ out.val[0] = self.x /\ out.val[1] = self.y /\ out.val[2] = self.z
       /\ DOMAIN out.val = 0 .. 2
       /\ from_array(out.val) = self
  /\ op = "into_tuple" =>
       /\ out.val = <<self.x, self.y, self.z>>
       /\ from_tuple(out.val) = self
  /\ op = "from_array" =>
       /\ out.val.x = args[1][0] /\ out.val.y = args[1][1] /\ out.val.z = args[1][2]
       /\ into_array(out.val) = args[1]
  /\ op = "from_tuple" =>
       /\ out.val.x = args[1][1] /\ out.val.y = args[1][2] /\ out.val.z = args[1][3]
       /\ into_tuple(out.val) = args[1]
  /\ op \in {"into_array", "into_tuple", "from_array", "from_tuple"} => self = prev

\* The array [2, -0.0, NaN] has become the vector (2, -0.0, NaN), which converts
\* back to that array.
C13_Witness_ArrayThereAndBack ==
  /\ op = "from_array"
  /\ args[1][0] = Lit(0, 2, 0)
  /\ args[1][1] = FZero(1)
  /\ args[1][2] = NaN
  /\ out = Ret(new(Lit(0, 2, 0), FZero(1), NaN))
  /\ into_array(out.val) = args[1]

\* ------------------------------------------ extension and truncation: C14
\* v4 = self.extend(scalar);
Extend ==
  /\ Running
  /\ op' = "extend"
  /\ args' = <<scalar>>
  /\ prev' = self
  /\ v4' = extend(self, scalar)
  /\ out' = Ret(extend(self, scalar))
  /\ UNCHANGED <<frames, feature, self, other, scalar>>

\* v4 = self.to_point();
ToPoint ==
  /\ Running
  /\ op' = "to_point"
  /\ args' = <<>>
  /\ prev' = self
  /\ v4' = to_point(self)
  /\ out' = Ret(to_point(self))
  /\ UNCHANGED <<frames, feature, self, other, scalar>>

\* v4 = self.to_direction();
ToDirection ==
  /\ Running
  /\ op' = "to_direction"
  /\ args' = <<>>
  /\ prev' = self
  /\ v4' = to_direction(self)
  /\ out' = Ret(to_direction(self))
  /\ UNCHANGED <<frames, feature, self, other, scalar>>

\* let r = v4.truncate();  args remembers how v4 was made.
Truncate ==
  /\ Running
  /\ op' = "truncate"
  /\ args' = <<op>>
  /\ prev' = self
  /\ out' = Ret(truncate(v4))
  /\ UNCHANGED <<frames, feature, self, other, scalar, v4>>

\* x, y: 0, -0, 1, -3, +inf, NaN; z: 2, NaN; w: 0, 1, 5, -0, NaN.
ExtendXY == {F0, FZero(1), F1, Lit(1, 3, 0), Inf(0), NaN}
ExtendZ == {Lit(0, 2, 0), NaN}
ExtendW == {F0, F1, Lit(0, 5, 0), FZero(1), NaN}

InitExtend ==
  /\ feature = FALSE
  /\ self \in [x : ExtendXY, y : ExtendXY, z : ExtendZ]
  /\ other = zero
  /\ scalar \in ExtendW
  /\ v4 = new4(Lit(0, 2, 0), Lit(0, 4, 0), Lit(0, 6, 0), Lit(0, 2, 0))
  /\ op = "init"
  /\ args = <<>>
  /\ prev = self
  /\ out = NoCall
  /\ frames = NoFrames

NextExtend ==
  \/ Extend
  \/ ToPoint
  \/ ToDirection
  \/ Truncate

SpecExtend == InitExtend /\ [][NextExtend]_vars

Clamp(lo, hi) ==
  /\ Running
  /\ op' = "clamp"
  /\ args' = <<lo, hi>>
  /\ prev' = self
  /\ out' \in {Ret(r) : r \in clamp(self, lo, hi)}
  /\ UNCHANGED <<frames, feature, self, other, scalar, v4>>

\* self: x in -0, 0, 1, -2, 3, NaN, y in -2, 1, z = 3; bounds: x in
\* -1, -0, 0, 2, NaN, y in -1, 2, z = -1 (lower) and 2 (upper).  They hold the
\* case of the tests, (1,-2,3).clamp((-1,-1,-1), (2,2,2)), and lower bounds
\* above the upper.
ClampSelfX == {FZero(1), F0, F1, Lit(1, 2, 0), Lit(0, 3, 0), NaN}
ClampSelfY == {Lit(1, 2, 0), F1}
ClampBound == {Lit(1, 1, 0), FZero(1), F0, Lit(0, 2, 0), NaN}
ClampBoundY == {Lit(1, 1, 0), Lit(0, 2, 0)}
ClampLo == [x : ClampBound, y : ClampBoundY, z : {Lit(1, 1, 0)}]
ClampHi == [x : ClampBound, y : ClampBoundY, z : {Lit(0, 2, 0)}]

InitClamp ==
  /\ feature = FALSE
  /\ self \in [x : ClampSelfX, y : ClampSelfY, z : {Lit(0, 3, 0)}]
  /\ other = zero
  /\ scalar = F0
  /\ v4 = V4Zero
  /\ op = "init"
  /\ args = <<>>
  /\ prev = self
  /\ out = NoCall
  /\ frames = NoFrames

NextClamp == \E lo \in ClampLo, hi \in ClampHi : Clamp(lo, hi)

SpecClamp == InitClamp /\ [][NextClamp]_vars

\* Two f32 results are the same value: == holds, or both are NaN.
SameF(a, b) == feq(a, b) \/ (IsNaN(a) /\ IsNaN(b))

\* o is max(min(s, hi), lo), the formula of the claim, on one axis.
UpperFirstAxis(s, lo, hi, o) == \E m \in fmin(s, hi) : \E r \in fmax(m, lo) : SameF(o, r)
\* o is min(max(s, lo), hi) on one axis.
LowerFirstAxis(s, lo, hi, o) == \E m \in fmax(s, lo) : \E r \in fmin(m, hi) : SameF(o, r)

\* C15 as stated: on every axis and for every pair of bounds, clamp equals
\* max(min(self, max_bound), min_bound).
C15_Clamp_AsStated ==
  op = "clamp" =>
    /\ UpperFirstAxis(self.x, args[1].x, args[2].x, out.val.x)
    /\ UpperFirstAxis(self.y, args[1].y, args[2].y, out.val.y)
    /\ UpperFirstAxis(self.z, args[1].z, args[2].z, out.val.z)

\* One axis of C15, amended.
ClampAxis(s, lo, hi, o) ==
  /\ LowerFirstAxis(s, lo, hi, o)
  /\ (~fgt(lo, hi) /\ ~IsNaN(s)) => UpperFirstAxis(s, lo, hi, o)
  /\ fgt(lo, hi) => feq(o, hi)

\* C15, amended: clamp(min_bound, max_bound) equals min(max(self, min_bound),
\* max_bound) on every axis (the lower bound is applied first); on an axis where
\* min_bound is not greater than max_bound and self is not NaN this equals
\* max(min(self, max_bound), min_bound); on an axis where min_bound exceeds
\* max_bound the result is max_bound.  (1,-2,3).clamp((-1,-1,-1), (2,2,2)) is
\* (1,-1,2).
C15_Clamp ==
  op = "clamp" =>
    /\ ClampAxis(self.x, args[1].x, args[2].x, out.val.x)
    /\ ClampAxis(self.y, args[1].y, args[2].y, out.val.y)
    /\ ClampAxis(self.z, args[1].z, args[2].z, out.val.z)
    /\ self = prev
    /\ (self = new(F1, Lit(1, 2, 0), Lit(0, 3, 0))
          /\ args[1] = new(Lit(1, 1, 0), Lit(1, 1, 0), Lit(1, 1, 0))
          /\ args[2] = new(Lit(0, 2, 0), Lit(0, 2, 0), Lit(0, 2, 0)))
         => out.val = new(F1, Lit(1, 1, 0), Lit(0, 2, 0))

\* The lower bound 2 lay above the upper bound -1 on the x axis, and clamp has
\* returned the upper bound there.
C15_Witness_CrossedBounds ==
  /\ op = "clamp"
  /\ self.x = F1
  /\ args[1].x = Lit(0, 2, 0)
  /\ args[2].x = Lit(1, 1, 0)
  /\ out.val.x = Lit(1, 1, 0)

\* ------------------------------------------------- clamp, by axis: C23
\* One axis of C23: with lo above hi the result is hi; with lo <= hi the result
\* is in [lo, hi], and it equals s when s already is.
CrossedOrOrderedAxis(s, lo, hi, o) ==
  /\ fgt(lo, hi) => o = hi
  /\ fle(lo, hi) =>
       /\ fle(lo, o) /\ fle(o, hi)
       /\ (fle(lo, s) /\ fle(s, hi)) => feq(o, s)

\* C23: on an axis where the lower bound exceeds the upper bound, clamp returns
\* the upper bound whatever self holds there; on an axis where the lower bound
\* does not exceed the upper bound the result lies between the bounds and
\* equals self's component when that component already lies between them.
C23_ClampBoundOrder ==
  op = "clamp" =>
    /\ CrossedOrOrderedAxis(self.x, args[1].x, args[2].x, out.val.x)
    /\ CrossedOrOrderedAxis(self.y, args[1].y, args[2].y, out.val.y)
    /\ CrossedOrOrderedAxis(self.z, args[1].z, args[2].z, out.val.z)

\* The x axis had lo = 2 above hi = -0.0 with self = 3 above both, while the y
\* axis had self = 1 inside [-1, 2]: clamp has returned -0.0 and 1 there.
C23_Witness_CrossedAndInside ==
  /\ op = "clamp"
  /\ self.x = Lit(0, 3, 0) /\ args[1].x = Lit(0, 2, 0) /\ args[2].x = FZero(1)
  /\ out.val.x = FZero(1)
  /\ self.y = F1 /\ args[1].y = Lit(1, 1, 0) /\ args[2].y = Lit(0, 2, 0)
  /\ out.val.y = F1

\* ------------------------------------- max_component, min_component: C16
\* let r = self.max_component();
MaxComponent ==
  /\ Running
  /\ op' = "max_component"
  /\ args' = <<>>
  /\ prev' = self
  /\ out' \in {Ret(r) : r \in max_component(self)}
  /\ UNCHANGED <<frames, feature, self, other, scalar, v4>>

\* let r = self.min_component();
MinComponent ==
  /\ Running
  /\ op' = "min_component"
  /\ args' = <<>>
  /\ prev' = self
  /\ out' \in {Ret(r) : r \in min_component(self)}
  /\ UNCHANGED <<frames, feature, self, other, scalar, v4>>

\* Components -0, 0, 3, -5, -7, -inf, NaN: they hold (-5, 3, -7) of the tests.
CompVals == {FZero(1), F0, Lit(0, 3, 0), Lit(1, 5, 0), Lit(1, 7, 0), Inf(1), NaN}

InitComponent ==
  /\ feature = FALSE
  /\ self \in [x : CompVals, y : CompVals, z : CompVals]
  /\ other = zero
  /\ scalar = F0
  /\ v4 = V4Zero
  /\ op = "init"
  /\ args = <<>>
  /\ prev = self
  /\ out = NoCall
  /\ frames = NoFrames

NextComponent ==
  \/ MaxComponent
  \/ MinComponent

SpecComponent == InitComponent /\ [][NextComponent]_vars

\* |x|, |y|, |z| of self.
AbsComponents == {fabs(self.x), fabs(self.y), fabs(self.z)}

\* r is one of |x|, |y|, |z| and none of them is greater / smaller than r.
LargestAbs(r) ==
  /\ \E c \in AbsComponents : SameF(r, c)
  /\ \A c \in AbsComponents : ~fgt(c, r)
SmallestAbs(r) ==
  /\ \E c \in AbsComponents : SameF(r, c)
  /\ \A c \in AbsComponents : ~flt(c, r)

Threads == 1 .. MaxThreads
ThreadOps == {"dot", "cross", "normalize"}
Idle == [pc |-> "idle", op |-> "none", given |-> <<zero, zero>>, a |-> zero,
         b |-> zero, step |-> 0, acc |-> F0]

\* The next step of the body of f.op, computed from the operands a and b.
advance(f, a, b) ==
  CASE f.op = "dot" /\ f.step = 0 -> [f EXCEPT !.acc = fmul(a.x, b.x), !.step = 1]
    [] f.op = "dot" /\ f.step = 1 -> [f EXCEPT !.acc = fadd(f.acc, fmul(a.y, b.y)), !.step = 2]
    [] f.op = "dot" /\ f.step = 2 ->
         [f EXCEPT !.acc = fadd(f.acc, fmul(a.z, b.z)), !.step = 3, !.pc = "done"]
    [] f.op = "cross" /\ f.step = 0 ->
         [f EXCEPT !.acc = new(fsub(fmul(a.y, b.z), fmul(a.z, b.y)), F0, F0), !.step = 1]
    [] f.op = "cross" /\ f.step = 1 ->
         [f EXCEPT !.acc = [f.acc EXCEPT !.y = fsub(fmul(a.z, b.x), fmul(a.x, b.z))], !.step = 2]
    [] f.op = "cross" /\ f.step = 2 ->
         [f EXCEPT !.acc = [f.acc EXCEPT !.z = fsub(fmul(a.x, b.y), fmul(a.y, b.x))],
                   !.step = 3, !.pc = "done"]
    [] f.op = "normalize" /\ f.step = 0 -> [f EXCEPT !.acc = length_squared(a), !.step = 1]
    [] f.op = "normalize" /\ f.step = 1 ->
         [f EXCEPT !.acc = IF flt(f.acc, fmul(EPSILON, EPSILON)) THEN zero
                           ELSE mul(a, fast_inv_sqrt(f.acc)),
                   !.step = 2, !.pc = "done"]

\* A step that reads the caller's variables instead of the call's own copies.
step_call_shared(f) == advance(f, self, other)

\* A step of a call: it reads the call's own copies and nothing else.
step_call(f) == advance(f, f.a, f.b)

\* Thread t calls self.dot(other), self.cross(other) or self.normalize(): the
\* arguments are copied into the call.
Call(t, o) ==
  /\ frames[t].pc = "idle"
  /\ frames' = [frames EXCEPT ![t] = [pc |-> "run", op |-> o, given |-> <<self, other>>,
                                      a |-> self, b |-> other, step |-> 0, acc |-> F0]]
  /\ UNCHANGED <<feature, self, other, scalar, v4, op, args, prev, out>>

\* The call of thread t executes its next step.
Step(t) ==
  /\ frames[t].pc = "run"
  /\ frames' = [frames EXCEPT ![t] = step_call(frames[t])]
  /\ UNCHANGED <<feature, self, other, scalar, v4, op, args, prev, out>>

\* The call of thread t returns; its result has been used.
Return(t) ==
  /\ frames[t].pc = "done"
  /\ frames' = [frames EXCEPT ![t] = Idle]
  /\ UNCHANGED <<feature, self, other, scalar, v4, op, args, prev, out>>

\* The owner of the vector runs self *= scalar while other threads' calls are
\* in progress.
OwnerAssigns ==
  /\ self' = mul_assign(self, scalar)
  /\ UNCHANGED <<frames, feature, other, scalar, v4, op, args, prev, out>>

ThreadSelf == {new(F1, Lit(0, 2, 0), Lit(0, 3, 0)), new(Lit(0, 3, 0), Lit(0, 4, 0), F0)}

InitThreads ==
  /\ feature = FALSE
  /\ self \in ThreadSelf
  /\ other = new(Lit(0, 4, 0), Lit(0, 5, 0), Lit(0, 6, 0))
  /\ scalar = Lit(1, 1, 0)
  /\ v4 = V4Zero
  /\ op = "init"
  /\ args = <<>>
  /\ prev = self
  /\ out = NoCall
  /\ frames = [t \in Threads |-> Idle]

NextThreads ==
  \/ \E t \in Threads, o \in ThreadOps : Call(t, o)
  \/ \E t \in Threads : Step(t)
  \/ \E t \in Threads : Return(t)
  \/ OwnerAssigns

SpecThreads == InitThreads /\ [][NextThreads]_vars

\* What the operation returns when it runs alone on the arguments a and b.
Alone(o, a, b) ==
  CASE o = "dot" -> dot(a, b)
    [] o = "cross" -> cross(a, b)
    [] o = "normalize" -> normalize(a)

\* C17: under every interleaving of the calls of several threads (and of the
\* owner's assignments), a call in progress holds its operands as they were
\* passed, and a finished call has the result the operation returns when it
\* runs alone on those arguments.
C17_ThreadSafety ==
  \A t \in DOMAIN frames :
    LET f == frames[t]
    IN /\ f.pc \in {"run", "done"} => (f.a = f.given[1] /\ f.b = f.given[2])
       /\ f.pc = "done" => f.acc = Alone(f.op, f.given[1], f.given[2])

\* Two calls have finished side by side, one of them entered before the owner
\* changed the vector and one after, each with the result for its own arguments.
C17_Witness_Interleaved ==
  /\ DOMAIN frames = Threads
  /\ frames[1].pc = "done"
  /\ frames[2].pc = "done"
  /\ frames[1].op = "dot"
  /\ frames[2].op = "dot"
  /\ frames[1].given[1] # frames[2].given[1]
  /\ frames[1].acc = dot(frames[1].given[1], frames[1].given[2])
  /\ frames[2].acc = dot(frames[2].given[1], frames[2].given[2])
  /\ frames[1].acc # frames[2].acc

\* --------------------------------------------------------- distances: C18
\* let r = self.distance_to(p);
DistanceTo(p) ==
  /\ Running
  /\ op' = "distance_to"
  /\ args' = <<p>>
  /\ prev' = self
  /\ out' = Ret(distance_to(self, p))
  /\ UNCHANGED <<frames, feature, self, other, scalar, v4>>

\* let r = self.distance_squared_to(p);
DistanceSquaredTo(p) ==
  /\ Running
  /\ op' = "distance_squared_to"
  /\ args' = <<p>>
  /\ prev' = self
  /\ out' = Ret(distance_squared_to(self, p))
  /\ UNCHANGED <<frames, feature, self, other, scalar, v4>>

\* Points: x in 0, 1, 3, 2^-70 (its square underflows), 2^100 (its square
\* overflows), y in 0, 1, 4, z in 0, 1; and (+inf, 0, 0).  They hold (0,0,0),
\* (3,4,0) and (1,1,1) of the tests.
DistX == {F0, F1, Lit(0, 3, 0), Lit(0, 1, -70), Lit(0, 1, 100)}
DistY == {F0, F1, Lit(0, 4, 0)}
DistZ == {F0, F1}
DistPoints == [x : DistX, y : DistY, z : DistZ] \cup {new(Inf(0), F0, F0)}
\* Intermediate points of the triangle inequality.
DistMid ==
  {new(F0, F1, F0), new(Lit(0, 3, 0), F0, F0), new(F1, F1, F1), new(Lit(0, 3, 0), Lit(0, 4, 0), F0)}

InitDistance ==
  /\ feature = FALSE
  /\ self \in DistPoints
  /\ other \in DistMid
  /\ scalar = F0
  /\ v4 = V4Zero
  /\ op = "init"
  /\ args = <<>>
  /\ prev = self
  /\ out = NoCall
  /\ frames = NoFrames

NextDistance ==
  \/ \E p \in DistPoints : DistanceTo(p)
  \/ \E p \in DistPoints : DistanceSquaredTo(p)

SpecDistance == InitDistance /\ [][NextDistance]_vars

SqrtExact(x) == IsFin(x) /\ x.s = 0 /\ MulExact(fsqrt(x), fsqrt(x)) /\ feq(fmul(fsqrt(x), fsqrt(x)), x)

\* Every step of a.distance_squared_to(b) / a.distance_to(b) is computed
\* without rounding, underflow or overflow.
DistSqExact(a, b) ==
  /\ SubExact(a.x, b.x) /\ SubExact(a.y, b.y) /\ SubExact(a.z, b.z)
  /\ DotExact(sub(a, b), sub(a, b))
DistExact(a, b) == DistSqExact(a, b) /\ SqrtExact(length_squared(sub(a, b)))

IsFiniteVec(v) == IsFin(v.x) /\ IsFin(v.y) /\ IsFin(v.z)

AddAssign ==
  /\ Running
  /\ Len(args) < MaxAssigns
  /\ op' = "add_assign"
  /\ args' = Append(args, other)
  /\ prev' = self
  /\ self' = add_assign(self, other)
  /\ out' = Ret(<<>>)
  /\ UNCHANGED <<frames, feature, other, scalar, v4>>

\* self -= other;
SubAssign ==
  /\ Running
  /\ Len(args) < MaxAssigns
  /\ op' = "sub_assign"
  /\ args' = Append(args, other)
  /\ prev' = self
  /\ self' = sub_assign(self, other)
  /\ out' = Ret(<<>>)
  /\ UNCHANGED <<frames, feature, other, scalar, v4>>

\* self *= scalar;
MulAssign ==
  /\ Running
  /\ Len(args) < MaxAssigns
  /\ op' = "mul_assign"
  /\ args' = Append(args, scalar)
  /\ prev' = self
  /\ self' = mul_assign(self, scalar)
  /\ out' = Ret(<<>>)
  /\ UNCHANGED <<frames, feature, other, scalar, v4>>

\* self /= scalar;
DivAssign ==
  /\ Running
  /\ Len(args) < MaxAssigns
  /\ op' = "div_assign"
  /\ args' = Append(args, scalar)
  /\ prev' = self
  /\ self' = div_assign(self, scalar)
  /\ out' = Ret(<<>>)
  /\ UNCHANGED <<frames, feature, other, scalar, v4>>

\* Receivers (2,3,4), (5,0,-0.0), (7,1,2^127); right-hand vectors (-1,2,-3),
\* (NaN,+inf,2^127); scalars 2, 3 (1/3 is rounded), 0, NaN.
AssignSelf ==
  {new(Lit(0, 2, 0), Lit(0, 3, 0), Lit(0, 4, 0)), new(Lit(0, 5, 0), F0, FZero(1)),
   new(Lit(0, 7, 0), F1, Lit(0, 1, 127))}
AssignOther ==
  {new(Lit(1, 1, 0), Lit(0, 2, 0), Lit(1, 3, 0)), new(NaN, Inf(0), Lit(0, 1, 127))}
AssignScalar == {Lit(0, 2, 0), Lit(0, 3, 0), F0, NaN}

InitAssign ==
  /\ feature = FALSE
  /\ self \in AssignSelf
  /\ other \in AssignOther
  /\ scalar \in AssignScalar
  /\ v4 = V4Zero
  /\ op = "init"
  /\ args = <<>>
  /\ prev = self
  /\ out = NoCall
  /\ frames = NoFrames

NextAssign ==
  \/ AddAssign
  \/ SubAssign
  \/ MulAssign
  \/ DivAssign

SpecAssign == InitAssign /\ [][NextAssign]_vars

\* C20: after v += b, v -= b, v *= s, v /= s the receiver equals old_v + b,
\* old_v - b, old_v * s and old_v / s, the last computed as old_v times the
\* single reciprocal 1/s; the right-hand operand is as it was passed.
C20_InPlaceOperators ==
  /\ op = "add_assign" =>
       /\ self = add(prev, other)
       /\ self = new(fadd(prev.x, other.x), fadd(prev.y, other.y), fadd(prev.z, other.z))
       /\ other = args[Len(args)]
  /\ op = "sub_assign" =>
       /\ self = sub(prev, other)
       /\ self = new(fsub(prev.x, other.x), fsub(prev.y, other.y), fsub(prev.z, other.z))
       /\ other = args[Len(args)]
  /\ op = "mul_assign" =>
       /\ self = mul(prev, scalar)
       /\ self = new(fmul(prev.x, scalar), fmul(prev.y, scalar), fmul(prev.z, scalar))
       /\ scalar = args[Len(args)]
  /\ op = "div_assign" =>
       /\ self = div(prev, scalar)
       /\ self = new(fmul(prev.x, fdiv(F1, scalar)), fmul(prev.y, fdiv(F1, scalar)),
                     fmul(prev.z, fdiv(F1, scalar)))
       /\ scalar = args[Len(args)]

\* (5, 0, -0.0) /= 3 has left the receiver at 5 * (1/3), which is not 5 / 3.
C20_Witness_DividedByThree ==
  /\ op = "div_assign"
  /\ prev = new(Lit(0, 5, 0), F0, FZero(1))
  /\ scalar = Lit(0, 3, 0)
  /\ self.x = fmul(Lit(0, 5, 0), fdiv(F1, Lit(0, 3, 0)))
  /\ self.x # fdiv(Lit(0, 5, 0), Lit(0, 3, 0))

\* ------------------------------------------------------- slerp: C21, C22
\* let r = self.slerp(other, t);
Slerp(t) ==
  /\ Running
  /\ op' = "slerp"
  /\ args' = <<other, t>>
  /\ prev' = self
  /\ out' \in {Ret(r) : r \in slerp(self, other, t)}
  /\ UNCHANGED <<frames, feature, self, other, scalar, v4>>

\* Unit vectors: the axes of the tests and their opposites, two whose squared
\* length rounds to 1, (0.6, 0.8, 0) and (0.75, 0.625, 0.25), and one with a
\* tiny component, (1, 2^-100, 0); then (0.5, 0.5, 0), (2, 0, 0), (NaN, 0, 0)
\* and the zero vector, which are not unit.
SlerpUnits ==
  {unit_x, unit_y, neg(unit_x), neg(unit_z),
   new(Lit(0, 10066330, -24), Lit(0, 13421773, -24), F0),
   new(Lit(0, 3, -2), Lit(0, 5, -3), Lit(0, 1, -2)),
   new(F1, Lit(0, 1, -100), F0)}
SlerpVecs ==
  SlerpUnits \cup {new(F0_5, F0_5, F0), new(Lit(0, 2, 0), F0, F0), new(NaN, F0, F0), zero}
\* t: 0, 0.25, 0.5, 1, 2, NaN, -inf.
SlerpT == {F0, Lit(0, 1, -2), F0_5, F1, Lit(0, 2, 0), NaN, Inf(1)}

InitSlerp ==
  /\ feature \in BOOLEAN
  /\ self \in SlerpVecs
  /\ other \in {self, neg(self), unit_x, unit_y, new(F0_5, F0_5, F0)}
  /\ scalar = F0
  /\ v4 = V4Zero
  /\ op = "init"
  /\ args = <<>>
  /\ prev = self
  /\ out = NoCall
  /\ frames = NoFrames

NextSlerp == \E t \in SlerpT : Slerp(t)

SpecSlerp == InitSlerp /\ [][NextSlerp]_vars

\* The dot product of the call's operands, clamped to [-1, 1].
ClampedDot == fclamp(dot(self, args[1]), fneg(F1), F1)

\* slerp returns normalize(lerp(self, other, t)) when the absolute value of the
\* clamped dot exceeds 1 - EPSILON, and a great-circle weighted sum otherwise.
SlerpBranches ==
  /\ ~fgt(fabs(ClampedDot), F1)
  /\ GtOneMinusEpsilon(fabs(ClampedDot)) => out.val = normalize(lerp(self, args[1], args[2]))
  /\ ~GtOneMinusEpsilon(fabs(ClampedDot)) => out.val \in great_circle(self, args[1], args[2], ClampedDot)

\* C21: slerp clamps the dot product to [-1, 1]; when the absolute value of the
\* clamped dot exceeds 1 - EPSILON it returns exactly normalize(lerp(self,
\* other, t)) and only otherwise the great-circle weighted sum; in particular
\* u.slerp(u, t) equals u for a unit vector u.
C21_Slerp ==
  op = "slerp" =>
    /\ SlerpBranches
    /\ (is_normalized(self) /\ args[1] = self) => veq(out.val, self)

\* C22: for every unit vector u, u.slerp(-u, 0.5) takes the fallback of the
\* near-antiparallel case, lerp yields the zero vector there and normalize
\* returns exactly the zero vector, which is not a unit vector.
C22_SlerpOpposite ==
  (op = "slerp" /\ is_normalized(self) /\ args[1] = neg(self) /\ args[2] = F0_5) =>
    /\ GtOneMinusEpsilon(fabs(ClampedDot))
    /\ flt(ClampedDot, F0)
    /\ lerp(self, args[1], args[2]) = zero
    /\ out.val = zero
    /\ ~is_normalized(out.val)

\* (0.6, 0.8, 0).slerp(-(0.6, 0.8, 0), 0.5) has returned the zero vector in the
\* build with the feature.
C22_Witness_OppositeGivesZero ==
  /\ op = "slerp"
  /\ feature
  /\ self = new(Lit(0, 10066330, -24), Lit(0, 13421773, -24), F0)
  /\ is_normalized(self)
  /\ args = <<neg(self), F0_5>>
  /\ out.val = zero

====
